---- MODULE Spec2Model ----
(***************************************************************************)
(* Spherical-overdensity (SO) halo properties.                             *)
(*                                                                         *)
(*   SOProperties.calculate   (src/SO_properties.py)                       *)
(*   SOCatalogue.__init__     (src/halo_centres.py)                        *)
(*                                                                         *)
(* Conventions of the model                                                *)
(*   - numpy arrays are sequences; a species' column arrays (all of equal  *)
(*     length) are one sequence of records, one record per particle, whose *)
(*     fields carry the dataset names of the source.                       *)
(*   - particles and the halo centre lie on the x axis, so that            *)
(*     sqrt(sum(pos**2)) is exactly |x|; vectors are their x component.    *)
(*   - quotients are exact rationals <<n, d>> in lowest terms (Rat).       *)
(*   - densities are carried in units of mass per (4/3 pi length^3), so    *)
(*     density[i] = cumulative_mass[i] / ordered_radius[i]^3.              *)
(*   - the overdensity multiple SOval is carried in tenths (14 is 1.4).    *)
(*   - a result's description string is a function of its key, so the     *)
(*     result mapping holds the values only.                               *)
(***************************************************************************)
EXTENDS Integers, Sequences, FiniteSets, TLC

VARIABLES
    \* ---- SOProperties.calculate ----
    input_halo,     \* dict passed in: input_halo["cofp"]
    data,           \* particle data: species -> sequence of particle records
    calcs,          \* the configured SOProperties objects, in registry order
    halo_result,    \* the shared per-halo result dict
    ran,            \* indices of the calculators whose calculate() was called
    error,          \* "none", or the exception that aborted the run
    profile,        \* calculate's locals ordered_radius / cumulative_mass
    \* ---- SOCatalogue.__init__ ----
    args,           \* constructor arguments: a (scale factor) and boxsize
    unitinfo,       \* UnitInfo / SimulationInfo attributes of catalogue file 0
    rows,           \* per rank: the catalogue rows mf.read() gave that rank
    pc,             \* per rank: position in __init__
    bcast,          \* broadcast buffer of comm.bcast((units, siminfo))
    loc,            \* per rank: the local_* arrays still alive
    sent,           \* per rank: the arrays handed to g.gather_array
    self            \* per rank: the attributes set on the SOCatalogue object

vars == <<input_halo, data, calcs, halo_result, ran, error, profile,
          args, unitinfo, rows, pc, bcast, loc, sent, self>>

soVars  == <<input_halo, data, calcs, halo_result, ran, error, profile>>
catVars == <<args, unitinfo, rows, pc, bcast, loc, sent, self>>

-----------------------------------------------------------------------------
(* Bounds                                                                  *)

\* largest number of particles of a halo (one calculator per halo)
MaxParts == 3
\* largest number of particles of a halo processed by two calculators
MaxPairParts == 2
\* number of MPI ranks, and largest number of halos in the catalogue
NRanks == 2
MaxHalos == 2

-----------------------------------------------------------------------------
(* Arithmetic helpers                                                      *)

Abs(x) == IF x < 0 THEN -x ELSE x

RECURSIVE GCD(_, _)
GCD(a, b) == IF b = 0 THEN a ELSE GCD(b, a % b)

\* the rational n/d (d > 0) in lowest terms
Rat(n, d) == LET g == GCD(Abs(n), d) IN <<n \div g, d \div g>>

RECURSIVE SumSeq(_)
SumSeq(s) == IF s = <<>> THEN 0 ELSE Head(s) + SumSeq(Tail(s))

RECURSIVE Select(_, _)
\* numpy boolean-mask indexing a[mask]
Select(a, mask) ==
    IF a = <<>> THEN <<>>
    ELSE (IF Head(mask) THEN <<Head(a)>> ELSE <<>>) \o Select(Tail(a), Tail(mask))

-----------------------------------------------------------------------------
(* SOProperties: configuration and input domains                           *)

\* the species of particle_properties, in the order the data dict lists them
PartTypes == <<"PartType0", "PartType1", "PartType4", "PartType5">>

\* dataset_names.mass_dataset: the species' mass field
mass_dataset(ptype) ==
    IF ptype = "PartType5" THEN "DynamicalMasses" ELSE "Masses"

\* the gas temperature above which gas counts as hot, in K
HotGasTemperature == 100000

\* the records of one species: its datasets of particle_properties
ParticleRecords(ptype) ==
    CASE ptype = "PartType0" ->
           [Coordinates : {0, 1, 3}, Masses : {8, 16}, Velocities : {2},
            Temperatures : {100000, 200000}, XrayLuminosities : {3},
            XrayPhotonLuminosities : {5}, ComptonYParameters : {7}]
      [] ptype = "PartType1" ->
           [Coordinates : {0, 1, 3}, Masses : {8, 16}, Velocities : {2}]
      [] ptype = "PartType4" ->
           [Coordinates : {0, 1, 3}, Masses : {8}, InitialMasses : {9},
            Velocities : {2}]
      [] ptype = "PartType5" ->
           [Coordinates : {0, 1, 3}, DynamicalMasses : {8}, SubgridMasses : {5},
            Velocities : {2}]

\* the species a snapshot can hold: full hydro, gas and dark matter only,
\* dark matter only
SnapshotTypes ==
    { {"PartType0", "PartType1", "PartType4", "PartType5"},
      {"PartType0", "PartType1"},
      {"PartType1"} }

\* SOProperties.__init__: SOval in tenths, type, and the densities the base
\* class takes from the snapshot's cosmology
Calculators ==
    [SOval : {10, 14, 16}, type : {"mean", "crit"},
     critical_density : {2}, mean_density : {1}]

\* f"{x:.0f}" of x = t/10: the nearest integer, a tie going to the even one
FormatF0(t) ==
    LET q == t \div 10
        r == t % 10
    IN  IF r < 5 THEN q
        ELSE IF r > 5 THEN q + 1
        ELSE IF q % 2 = 0 THEN q ELSE q + 1

-----------------------------------------------------------------------------
(* SOProperties.calculate                                                  *)

RECURSIVE Columns(_, _, _)
\* the concatenated mass / position / radius / velocity / types arrays, one
\* record per row, species after species in the order of the data dict
Columns(centre, d, ptypes) ==
    IF ptypes = <<>> THEN <<>>
    ELSE LET ptype == Head(ptypes)
             block == IF ptype \in DOMAIN d
                      THEN [i \in 1..Len(d[ptype]) |->
                              LET p   == d[ptype][i]
                                  pos == p.Coordinates - centre
                              IN  [mass     |-> p[mass_dataset(ptype)],
                                   position |-> pos,
                                   radius   |-> Abs(pos),
                                   velocity |-> p.Velocities,
                                   types    |-> ptype]]
                      ELSE <<>>
         IN  block \o Columns(centre, d, Tail(ptypes))

\* the concatenated radius array
Radius(centre, d) ==
    LET cols == Columns(centre, d, PartTypes)
    IN  [i \in 1..Len(cols) |-> cols[i].radius]

\* np.argsort(radius): an index permutation that puts the radii in
\* non-decreasing order; the order of equal radii is whatever the sort gives
ArgSort(radius) ==
    LET n == Len(radius)
    IN  { order \in [1..n -> 1..n] :
            /\ \A i, j \in 1..n : i # j => order[i] # order[j]
            /\ \A i \in 1..n : i < n => radius[order[i]] <= radius[order[i + 1]] }

RECURSIVE CumSum(_)
\* np.cumsum
CumSum(a) ==
    IF a = <<>> THEN <<>>
    ELSE LET front == CumSum(SubSeq(a, 1, Len(a) - 1))
         IN  Append(front, (IF front = <<>> THEN 0 ELSE front[Len(front)]) + a[Len(a)])

RECURSIVE NSkip(_, _)
\* while nskip < len(ordered_radius) and ordered_radius[nskip] == 0: nskip += 1
NSkip(ordered_radius, nskip) ==
    IF nskip < Len(ordered_radius) /\ ordered_radius[nskip + 1] = 0
    THEN NSkip(ordered_radius, nskip + 1)
    ELSE nskip

\* a slip of the order of the steps: the prefix sum taken after the cut
Profile_cut_first(cols, order) ==
    LET n      == Len(cols)
        radii  == [i \in 1..n |-> cols[order[i]].radius]
        nskip  == NSkip(radii, 0)
    IN  [ordered_radius  |-> SubSeq(radii, nskip + 1, n),
         cumulative_mass |-> CumSum(SubSeq([i \in 1..n |-> cols[order[i]].mass],
                                           nskip + 1, n))]

\* the radius-sorted profile with the zero-radius rows cut off
Profile(cols, order) ==
    LET n      == Len(cols)
        radii  == [i \in 1..n |-> cols[order[i]].radius]
        cum    == CumSum([i \in 1..n |-> cols[order[i]].mass])
        nskip  == NSkip(radii, 0)
    IN  [ordered_radius  |-> SubSeq(radii, nskip + 1, n),
         cumulative_mass |-> SubSeq(cum, nskip + 1, n)]

\* reference_density as a rational <<n, d>>, and the suffix of the result keys
ReferenceDensity(c) ==
    IF c.type = "crit" THEN <<c.SOval * c.critical_density, 10>>
                       ELSE <<c.SOval * c.mean_density, 10>>

Name(c) == <<FormatF0(c.SOval), c.type>>

\* density[i] > reference_density and density[i] < reference_density
DensityAbove(prof, i, ref) ==
    prof.cumulative_mass[i] * ref[2] >
        ref[1] * prof.ordered_radius[i] * prof.ordered_radius[i] * prof.ordered_radius[i]

DensityBelow(prof, i, ref) ==
    prof.cumulative_mass[i] * ref[2] <
        ref[1] * prof.ordered_radius[i] * prof.ordered_radius[i] * prof.ordered_radius[i]

\* np.argmax(density < reference_density): the first index at which the mask
\* is True, and the first index of the array when it is True nowhere
ArgMaxBelow(prof, ref) ==
    LET below == { i \in 1..Len(prof.ordered_radius) : DensityBelow(prof, i, ref) }
    IN  IF below = {} THEN 1
        ELSE CHOOSE i \in below : \A j \in below : i <= j

\* the threshold search: (mSO, rSO)
FindSO(prof, ref) ==
    LET nr_parts == Len(prof.ordered_radius)
    IN  IF nr_parts > 0 /\ \E i \in 1..nr_parts : DensityAbove(prof, i, ref)
        THEN LET i == ArgMaxBelow(prof, ref)
             IN  [mSO |-> prof.cumulative_mass[i], rSO |-> prof.ordered_radius[i]]
        ELSE [mSO |-> 0, rSO |-> 0]
\* the rows of one species, a[types == ptype]
OfType(cols, ptype) == Select(cols, [i \in 1..Len(cols) |-> cols[i].types = ptype])

\* a dataset of one species as an array
Dataset(d, ptype, field) == [i \in 1..Len(d[ptype]) |-> d[ptype][i][field]]

\* the mask radius[types == ptype] < rSO
SelectionOf(cols, ptype, rSO) ==
    LET rows_ == OfType(cols, ptype)
    IN  [i \in 1..Len(rows_) |-> rows_[i].radius < rSO]

\* a slip of the threshold: >= in place of >
TgasSelection_ge(gas_temperatures) ==
    [i \in 1..Len(gas_temperatures) |-> gas_temperatures[i] >= HotGasTemperature]

\* gas_temperatures > 1.0e5 * unyt.K
TgasSelection(gas_temperatures) ==
    [i \in 1..Len(gas_temperatures) |-> gas_temperatures[i] > HotGasTemperature]

\* the branch rSO > 0: the aggregates over the rows inside the SO radius
Aggregates(centre, d, cols, so) ==
    LET gas_selection  == SelectionOf(cols, "PartType0", so.rSO)
        star_selection == SelectionOf(cols, "PartType4", so.rSO)
        bh_selection   == SelectionOf(cols, "PartType5", so.rSO)
        all_selection  == [i \in 1..Len(cols) |-> cols[i].radius < so.rSO]
        inside         == Select(cols, all_selection)
        gas_masses     == [i \in 1..Len(OfType(inside, "PartType0")) |->
                              OfType(inside, "PartType0")[i].mass]
        gas_temperatures == Select(Dataset(d, "PartType0", "Temperatures"), gas_selection)
        Tgas_selection == TgasSelection(gas_temperatures)
        hot_masses     == Select(gas_masses, Tgas_selection)
        hot_temps      == Select(gas_temperatures, Tgas_selection)
        MhotgasSO      == SumSeq(hot_masses)
    IN  [com    |-> LET c == Rat(SumSeq([i \in 1..Len(inside) |->
                                     inside[i].mass * inside[i].position]), so.mSO)
                    IN  Rat(c[1] + centre * c[2], c[2]),
         vcom   |-> Rat(SumSeq([i \in 1..Len(inside) |->
                                     inside[i].mass * inside[i].velocity]), so.mSO),
         Mgas   |-> SumSeq(gas_masses),
         Mdm    |-> SumSeq([i \in 1..Len(OfType(inside, "PartType1")) |->
                              OfType(inside, "PartType1")[i].mass]),
         Mstar  |-> SumSeq([i \in 1..Len(OfType(inside, "PartType4")) |->
                              OfType(inside, "PartType4")[i].mass]),
         MBHdyn |-> SumSeq([i \in 1..Len(OfType(inside, "PartType5")) |->
                              OfType(inside, "PartType5")[i].mass]),
         Mhotgas |-> MhotgasSO,
         Tgas   |-> IF \E i \in 1..Len(Tgas_selection) : Tgas_selection[i]
                    THEN Rat(SumSeq([i \in 1..Len(hot_temps) |->
                                        hot_temps[i] * hot_masses[i]]), MhotgasSO)
                    ELSE Rat(0, 1),
         Xraylum   |-> SumSeq(Select(Dataset(d, "PartType0", "XrayLuminosities"),
                                     gas_selection)),
         Xrayphlum |-> SumSeq(Select(Dataset(d, "PartType0", "XrayPhotonLuminosities"),
                                     gas_selection)),
         compY     |-> SumSeq(Select(Dataset(d, "PartType0", "ComptonYParameters"),
                                     gas_selection)),
         Mstarinit |-> SumSeq(Select(Dataset(d, "PartType4", "InitialMasses"),
                                     star_selection)),
         MBHsub    |-> SumSeq(Select(Dataset(d, "PartType5", "SubgridMasses"),
                                     bh_selection))]

\* the branch rSO == 0: every aggregate is a zero with the units attached
ZeroAggregates ==
    [com |-> Rat(0, 1), vcom |-> Rat(0, 1), Mgas |-> 0, Mdm |-> 0, Mstar |-> 0,
     MBHdyn |-> 0, Mhotgas |-> 0, Tgas |-> Rat(0, 1), Xraylum |-> 0,
     Xrayphlum |-> 0, compY |-> 0, Mstarinit |-> 0, MBHsub |-> 0]

\* the lookups data["PartType0"], data["PartType4"], data["PartType5"]:
\* a species the snapshot does not hold has no entry in data
KeyErrorAt(d, so) ==
    \/ "PartType0" \notin DOMAIN d
    \/ so.rSO > 0 /\ ("PartType4" \notin DOMAIN d \/ "PartType5" \notin DOMAIN d)

\* the quantities of one calculation, in the order of the update
Quantities ==
    {"r", "m", "com", "vcom", "Mgas", "Mdm", "Mstar", "MBHdyn", "Mstarinit",
     "MBHsub", "Mhotgas", "Tgas", "Xraylum", "Xrayphlum", "compY"}

\* the dict handed to halo_result.update: f"{quantity}_{name}" -> value
ResultEntries(c, so, agg) ==
    [key \in {<<q, Name(c)[1], Name(c)[2]>> : q \in Quantities} |->
        IF key[1] = "r" THEN so.rSO
        ELSE IF key[1] = "m" THEN so.mSO
        ELSE agg[key[1]]]

\* dict.update
Update(old, new) ==
    [key \in DOMAIN old \cup DOMAIN new |->
        IF key \in DOMAIN new THEN new[key] ELSE old[key]]

\* the profiles the sort can give: one per order argsort may return
Profiles(centre, d) ==
    LET cols == Columns(centre, d, PartTypes)
    IN  { Profile(cols, order) : order \in ArgSort(Radius(centre, d)) }

\* what one call of calculate leaves behind, given the profile the sort gave
calculate(c, halo, d, prof) ==
    LET centre == halo.cofp
        cols   == Columns(centre, d, PartTypes)
        so     == FindSO(prof, ReferenceDensity(c))
    IN  IF KeyErrorAt(d, so)
        THEN [raised |-> "KeyError", profile |-> prof, so |-> so, entries |-> <<>>]
        ELSE [raised |-> "none", profile |-> prof, so |-> so,
              entries |-> ResultEntries(c, so,
                             IF so.rSO > 0 THEN Aggregates(centre, d, cols, so)
                                           ELSE ZeroAggregates)]

-----------------------------------------------------------------------------
(* The halo loop: each configured calculator is called once on the halo    *)

\* the particle data of one halo: the species of the snapshot, each with its
\* rows in a fixed listing order, at most n rows in all
Key(p) ==
    (9 - p.Coordinates) * 1000
    + (IF "Masses" \in DOMAIN p THEN p.Masses ELSE p.DynamicalMasses) * 10
    + (IF "Temperatures" \in DOMAIN p THEN p.Temperatures \div 100000 ELSE 0)

RowsOf(ptype, k) ==
    { s \in [1..k -> ParticleRecords(ptype)] :
        \A i \in 1..k : i < k => Key(s[i]) <= Key(s[i + 1]) }

RowCount(d) == SumSeq([i \in 1..Len(PartTypes) |->
                         IF PartTypes[i] \in DOMAIN d THEN Len(d[PartTypes[i]]) ELSE 0])

RECURSIVE DataOver(_, _)
DataOver(ptypes, n) ==
    IF ptypes = <<>> THEN { <<>> }
    ELSE UNION { { (Head(ptypes) :> s) @@ d : s \in RowsOf(Head(ptypes), k),
                                              d \in DataOver(Tail(ptypes), n - k) } :
                 k \in 0..n }

HaloData(n) ==
    UNION { DataOver(SelectSeq(PartTypes, LAMBDA ptype : ptype \in types), n) :
            types \in SnapshotTypes }

\* the end-to-end scenario: five dark-matter particles of mass m0 = 16 at
\* radii 1..5 about the centre, in a dark-matter-only snapshot and in a
\* full snapshot whose other species have no rows near the halo
ScenarioRows ==
    [i \in 1..5 |-> [Coordinates |-> 1 + i, Masses |-> 16, Velocities |-> 2]]

ScenarioData ==
    { [PartType1 |-> ScenarioRows],
      [PartType0 |-> <<>>, PartType1 |-> ScenarioRows,
       PartType4 |-> <<>>, PartType5 |-> <<>>] }

\* no catalogue is being read
CatIdle ==
    /\ args = <<>> /\ unitinfo = <<>> /\ rows = <<>> /\ pc = <<>>
    /\ bcast = <<>> /\ loc = <<>> /\ sent = <<>> /\ self = <<>>

InitSO(ncalc, n) ==
    /\ input_halo = [cofp |-> 1]
    /\ data \in HaloData(n) \cup ScenarioData
    /\ calcs \in { cs \in [1..ncalc -> Calculators] :
                     \A i, j \in 1..ncalc : i < j =>
                        <<cs[i].SOval, cs[i].type>> # <<cs[j].SOval, cs[j].type>> }
    /\ halo_result = <<>>
    /\ ran = {}
    /\ error = "none"
    /\ profile = [ordered_radius |-> <<>>, cumulative_mass |-> <<>>]
    /\ CatIdle

\* property.calculate(input_halo, data, halo_result) for calculator k; an
\* exception aborts the run.  argsort is a function of its input: a second
\* call on the same radii returns the order of the first.
Calculate(k) ==
    /\ error = "none"
    /\ k \notin ran
    /\ \E prof \in Profiles(input_halo.cofp, data) :
         LET res == calculate(calcs[k], input_halo, data, prof)
         IN  /\ ran # {} => prof = profile
             /\ profile' = prof
             /\ error' = res.raised
             /\ halo_result' = IF res.raised = "none"
                               THEN Update(halo_result, res.entries)
                               ELSE halo_result
    /\ ran' = ran \cup {k}
    /\ UNCHANGED <<input_halo, data, calcs>>
    /\ UNCHANGED catVars

NextSO == \E k \in 1..Len(calcs) : Calculate(k)

\* one calculator per halo
Init == InitSO(1, MaxParts)
Spec == Init /\ [][NextSO]_vars

\* two calculators sharing the halo's result dict
InitPair == InitSO(2, MaxPairParts)
SpecPair == InitPair /\ [][NextSO]_vars
-----------------------------------------------------------------------------
(* Properties of SOProperties.calculate                                    *)

\* the value calculator k stored under quantity q
Res(k, q) == halo_result[<<q, Name(calcs[k])[1], Name(calcs[k])[2]>>]

Returned(k) == k \in ran /\ error = "none"

\* quantity q of calculator k is a zero (a quotient's zero is <<0, 1>>)
IsZero(k, q) ==
    IF q \in {"com", "vcom", "Tgas"} THEN Res(k, q) = <<0, 1>> ELSE Res(k, q) = 0

\* the rows of the input, and their radii about the centre
AllRows ==
    UNION { { [ptype |-> ptype, i |-> i] : i \in 1..Len(data[ptype]) } :
            ptype \in DOMAIN data }

RowRadius(x) == Abs(data[x.ptype][x.i].Coordinates - input_halo.cofp)
RowMass(x)   == data[x.ptype][x.i][mass_dataset(x.ptype)]

RowTempMass(x) == data[x.ptype][x.i].Temperatures * RowMass(x)

RECURSIVE SumMass(_)
SumMass(S) ==
    IF S = {} THEN 0
    ELSE LET x == CHOOSE y \in S : TRUE IN RowMass(x) + SumMass(S \ {x})

RECURSIVE SumTempMass(_)
SumTempMass(S) ==
    IF S = {} THEN 0
    ELSE LET x == CHOOSE y \in S : TRUE IN RowTempMass(x) + SumTempMass(S \ {x})

\* some entry of the profile has density above calculator k's reference
EverAbove(k) ==
    \E i \in 1..Len(profile.ordered_radius) :
        DensityAbove(profile, i, ReferenceDensity(calcs[k]))

\* i is the first entry, in increasing radius, with density below the reference
FirstBelow(k, i) ==
    /\ i \in 1..Len(profile.ordered_radius)
    /\ DensityBelow(profile, i, ReferenceDensity(calcs[k]))
    /\ \A j \in 1..(i - 1) : ~DensityBelow(profile, j, ReferenceDensity(calcs[k]))

GasStarBHQuantities ==
    {"Mgas", "Mstar", "MBHdyn", "Mstarinit", "MBHsub", "Mhotgas", "Tgas",
     "Xraylum", "Xrayphlum", "compY"}

IsScenario == data["PartType1"] = ScenarioRows /\ FirstBelow(1, 4)

\* C1: calculate accepts data in which a species key is absent: with only
\* PartType1 present it returns without raising, and in the scenario of five
\* particles of mass m0 at radii 1..5 whose density first drops below the
\* reference at the 4th it reports r = 4, m = 4 m0 and zero for every gas,
\* star and black-hole aggregate.
C1_AbsentSpeciesAccepted ==
    (ran # {} /\ DOMAIN data = {"PartType1"}) =>
        /\ error = "none"
        /\ IsScenario =>
             /\ Res(1, "r") = 4
             /\ Res(1, "m") = 4 * 16
             /\ \A q \in GasStarBHQuantities : IsZero(1, q)

\* C2: when an SO radius > 0 is found, Mgas + Mdm + Mstar + MBHdyn equals
\* the reported SO mass m.
C2_SpeciesMassesSumToSOMass ==
    (Returned(1) /\ Res(1, "r") > 0) =>
        Res(1, "Mgas") + Res(1, "Mdm") + Res(1, "Mstar") + Res(1, "MBHdyn")
            = Res(1, "m")

\* C3: when some entry has density above the reference, the SO radius is
\* the radius of the first entry with density below the reference and the
\* SO mass is the cumulative mass at that entry, so the density at the
\* returned radius is below the reference.
C3_FirstEntryBelow ==
    (Returned(1) /\ EverAbove(1)) =>
        \E i \in 1..Len(profile.ordered_radius) :
            /\ FirstBelow(1, i)
            /\ Res(1, "r") = profile.ordered_radius[i]
            /\ Res(1, "m") = profile.cumulative_mass[i]

\* C4: when no entry has density above the reference (a halo without
\* particles included), calculate raises nothing and reports zero for the
\* SO radius, the SO mass and every other output field.
C4_NeverAboveGivesZeros ==
    (ran # {} /\ ~EverAbove(1)) =>
        /\ error = "none"
        /\ \A q \in Quantities : IsZero(1, q)

\* the gas rows inside the SO radius, and the hot ones among them
GasInside(k) ==
    { x \in AllRows : x.ptype = "PartType0" /\ RowRadius(x) < Res(k, "r") }

HotGasInside(k) ==
    { x \in GasInside(k) : data[x.ptype][x.i].Temperatures > HotGasTemperature }

\* C9: with an SO radius > 0 and no gas inside it above 1e5 K, Tgas and the
\* hot-gas mass are exactly zero, whatever the gas mass inside; otherwise
\* Tgas is the mass-weighted mean temperature of exactly the gas inside the
\* radius that is above 1e5 K.
C9_HotGasTemperature ==
    (Returned(1) /\ Res(1, "r") > 0) =>
        IF HotGasInside(1) = {}
        THEN Res(1, "Tgas") = <<0, 1>> /\ Res(1, "Mhotgas") = 0
        ELSE /\ Res(1, "Mhotgas") = SumMass(HotGasInside(1))
             /\ Res(1, "Tgas") = Rat(SumTempMass(HotGasInside(1)),
                                     SumMass(HotGasInside(1)))

C9_Witness ==
    /\ Returned(1) /\ Res(1, "r") > 0
    /\ HotGasInside(1) = {} /\ Res(1, "Mgas") > 0
    /\ Res(1, "Tgas") = <<0, 1>>

\* C10: the profile's radii are non-decreasing and none is zero, its
\* cumulative mass is non-decreasing, and entry i holds the mass of every
\* row sorted up to it, the dropped zero-radius rows included: more than
\* the mass at radius < radius[i], at most the mass at radius <= radius[i],
\* and exactly that at the last entry of a run of equal radii.
C10_ProfileInvariant ==
    ran # {} =>
        LET r == profile.ordered_radius
            m == profile.cumulative_mass
            n == Len(r)
        IN  /\ Len(m) = n
            /\ n = Cardinality({ x \in AllRows : RowRadius(x) > 0 })
            /\ \A i \in 1..n : r[i] > 0
            /\ \A i \in 1..n : i < n => r[i] <= r[i + 1] /\ m[i] <= m[i + 1]
            /\ \A i \in 1..n :
                 /\ m[i] > SumMass({ x \in AllRows : RowRadius(x) < r[i] })
                 /\ m[i] <= SumMass({ x \in AllRows : RowRadius(x) <= r[i] })
                 /\ (i = n \/ r[i] < r[i + 1]) =>
                      m[i] = SumMass({ x \in AllRows : RowRadius(x) <= r[i] })

C10_Witness ==
    /\ ran # {}
    /\ \E x \in AllRows : RowRadius(x) = 0
    /\ Len(profile.ordered_radius) >= 2
    /\ profile.ordered_radius[1] = profile.ordered_radius[2]
\* what calculator k hands to halo_result.update on this halo
OwnEntries(k) == calculate(calcs[k], input_halo, data, profile).entries

\* C8: two calculators configured with different (multiple, type) may run
\* on the same halo_result in either order: each adds only keys with its
\* own suffix and neither overwrites the other's, so that after both have
\* run, in whichever order, every key of each calculator holds the value
\* that calculator computed.
C8_EitherOrder ==
    (ran = {1, 2} /\ error = "none") =>
        \A k \in {1, 2} : \A key \in DOMAIN OwnEntries(k) :
            /\ key \in DOMAIN halo_result
            /\ halo_result[key] = OwnEntries(k)[key]
-----------------------------------------------------------------------------
(* SOCatalogue.__init__, run by every MPI rank                             *)
(*                                                                         *)
(* Lengths are integers in units of 1e-3 of the length unit (1e-3 Mpc once *)
(* converted); np.sqrt is the square root rounded down to that resolution. *)
(* Scale factor and h are rationals <<n, d>>.                              *)

Ranks == 0..(NRanks - 1)

\* 5.0 * unyt.Mpc
min_radius == 5000

\* the rows of the catalogue, in the units of the file: centre of mass at
\* 0.1 on every axis, the potential minimum across the box edge on x, at
\* half a box on x, or across the edge on y and z
CatalogueRows ==
    { [Xc |-> 100, Yc |-> 100, Zc |-> 100,
       Xcminpot |-> p[1], Ycminpot |-> p[2], Zcminpot |-> p[3], R_size |-> r] :
      p \in { <<9900, 100, 100>>, <<5100, 400, 100>>, <<100, 9800, 9400>> },
      r \in { 0, 1000, 6000 } }

\* UnitInfo and SimulationInfo attributes of the first catalogue file
UnitInfos ==
    [Comoving_or_Physical : {0, 1}, Length_unit_to_kpc : {1000},
     h_val : { <<7, 10>> }]

\* length_conversion, a rational: file length units to comoving Mpc
LengthConversion(units, a) ==
    IF units.Comoving_or_Physical = 0
    THEN Rat(a[2] * units.Length_unit_to_kpc, a[1] * 1000)
    ELSE Rat(units.h_val[1] * units.Length_unit_to_kpc, units.h_val[2] * 1000)

\* array *= length_conversion
Convert(x, conv) == (x * conv[1]) \div conv[2]

RECURSIVE ISqrtBetween(_, _, _)
ISqrtBetween(n, lo, hi) ==
    IF lo >= hi THEN lo
    ELSE LET mid == (lo + hi + 1) \div 2
         IN  IF mid * mid <= n THEN ISqrtBetween(n, mid, hi)
                               ELSE ISqrtBetween(n, lo, mid - 1)

\* np.sqrt at the resolution of the model
ISqrt(n) == ISqrtBetween(n, 0, 46340)

\* a slip of the wrap test: the difference compared with the whole box
WrapAxis_whole_box(d, boxsize) == IF d > boxsize THEN boxsize - d ELSE d

\* need_wrap = dist[:,dim] > 0.5*boxsize; dist[need_wrap, dim] = boxsize - dist
WrapAxis(d, boxsize) == IF 2 * d > boxsize THEN boxsize - d ELSE d

\* dist = np.abs(local_cofp - local_cofm), wrapped on every axis
PeriodicDist(cofp, cofm, boxsize) ==
    [dim \in 1..3 |-> WrapAxis(Abs(cofp[dim] - cofm[dim]), boxsize)]

\* local_search_radius = local_r_size*1.01 + sqrt(sum(dist**2))
SearchRadius(r_size, dist) ==
    (r_size * 101) \div 100
        + ISqrt(dist[1] * dist[1] + dist[2] * dist[2] + dist[3] * dist[3])

\* a slip of the floor: the radii above the minimum are the ones replaced
ReadRadius_capped(search_radius) ==
    IF search_radius > min_radius THEN min_radius ELSE search_radius

\* ind = local_read_radius < min_radius; local_read_radius[ind] = min_radius
ReadRadius(search_radius) ==
    IF search_radius < min_radius THEN min_radius ELSE search_radius

RECURSIVE GatherArray(_, _, _)
\* g.gather_array: the ranks' arrays concatenated in rank order, on rank 0
GatherArray(arrays, field, rank) ==
    IF rank >= NRanks THEN <<>>
    ELSE arrays[rank][field] \o GatherArray(arrays, field, rank + 1)

\* a slip of the guard: every rank keeps what the gather returned to it
Attributes_every_rank(comm_rank, search_radius, read_radius, centre) ==
    [nr_halos      |-> Len(search_radius),
     search_radius |-> search_radius,
     read_radius   |-> read_radius,
     centre        |-> centre,
     index         |-> [h \in 1..Len(search_radius) |-> h - 1]]

\* if comm_rank == 0: self.nr_halos = ...: the attributes the object gets
Attributes(comm_rank, search_radius, read_radius, centre) ==
    IF comm_rank = 0
    THEN [nr_halos      |-> Len(search_radius),
          search_radius |-> search_radius,
          read_radius   |-> read_radius,
          centre        |-> centre,
          index         |-> [h \in 1..Len(search_radius) |-> h - 1]]
    ELSE <<>>

\* no halo is being processed
SOIdle ==
    /\ input_halo = <<>> /\ data = <<>> /\ calcs = <<>> /\ halo_result = <<>>
    /\ ran = {} /\ error = "none" /\ profile = <<>>

RECURSIVE RowsOver(_, _)
\* the ways mf.read can hand at most n rows to the ranks from rank on
RowsOver(rank, n) ==
    IF rank >= NRanks THEN { <<>> }
    ELSE UNION { { (rank :> s) @@ rest : s \in [1..k -> CatalogueRows],
                                         rest \in RowsOver(rank + 1, n - k) } :
                 k \in 0..n }

InitCat ==
    /\ unitinfo \in UnitInfos
    /\ args = [a |-> <<1, 2>>,
               boxsize |-> Convert(10000, LengthConversion(unitinfo, <<1, 2>>))]
    /\ rows \in RowsOver(0, MaxHalos)
    /\ pc = [rank \in Ranks |-> "start"]
    /\ bcast = [filenames |-> {}, units |-> {}]
    /\ loc = [rank \in Ranks |-> <<>>]
    /\ sent = [rank \in Ranks |-> <<>>]
    /\ self = [rank \in Ranks |-> <<>>]
    /\ SOIdle

\* lines 26-43: rank 0 picks the file names and broadcasts them; every rank
\* then reads its share of the rows
ReadCatalogue(rank) ==
    /\ pc[rank] = "start"
    /\ rank = 0 \/ bcast.filenames # {}
    /\ bcast' = IF rank = 0 THEN [bcast EXCEPT !.filenames = {"properties"}] ELSE bcast
    /\ loc' = [loc EXCEPT ![rank] =
                 [local_cofm   |-> [i \in 1..Len(rows[rank]) |->
                                      <<rows[rank][i].Xc, rows[rank][i].Yc, rows[rank][i].Zc>>],
                  local_cofp   |-> [i \in 1..Len(rows[rank]) |->
                                      <<rows[rank][i].Xcminpot, rows[rank][i].Ycminpot,
                                        rows[rank][i].Zcminpot>>],
                  local_r_size |-> [i \in 1..Len(rows[rank]) |-> rows[rank][i].R_size]]]
    /\ pc' = [pc EXCEPT ![rank] = "loaded"]
    /\ UNCHANGED <<args, unitinfo, rows, sent, self>>
    /\ UNCHANGED soVars

\* lines 45-91: rank 0 reads the unit attributes and broadcasts them; every
\* rank converts its arrays and wraps the centre offsets
ConvertAndWrap(rank) ==
    /\ pc[rank] = "loaded"
    /\ rank = 0 \/ bcast.units # {}
    /\ LET units == IF rank = 0 THEN unitinfo ELSE CHOOSE u \in bcast.units : TRUE
           conv  == LengthConversion(units, args.a)
           n     == Len(loc[rank].local_r_size)
           cofm  == [i \in 1..n |-> [dim \in 1..3 |-> Convert(loc[rank].local_cofm[i][dim], conv)]]
           cofp  == [i \in 1..n |-> [dim \in 1..3 |-> Convert(loc[rank].local_cofp[i][dim], conv)]]
       IN  /\ bcast' = IF rank = 0 THEN [bcast EXCEPT !.units = {unitinfo}] ELSE bcast
           /\ loc' = [loc EXCEPT ![rank] =
                        [local_cofm   |-> cofm,
                         local_cofp   |-> cofp,
                         local_r_size |-> [i \in 1..n |-> Convert(loc[rank].local_r_size[i], conv)],
                         dist         |-> [i \in 1..n |->
                                             PeriodicDist(cofp[i], cofm[i], args.boxsize)]]]
    /\ pc' = [pc EXCEPT ![rank] = "wrapped"]
    /\ UNCHANGED <<args, unitinfo, rows, sent, self>>
    /\ UNCHANGED soVars

\* lines 92-109: search and read radius of every local halo; dist,
\* local_cofm and local_r_size are freed
ComputeRadii(rank) ==
    /\ pc[rank] = "wrapped"
    /\ LET n      == Len(loc[rank].local_r_size)
           search == [i \in 1..n |-> SearchRadius(loc[rank].local_r_size[i], loc[rank].dist[i])]
       IN  loc' = [loc EXCEPT ![rank] =
                     [local_cofp          |-> loc[rank].local_cofp,
                      local_search_radius |-> search,
                      local_read_radius   |-> [i \in 1..n |-> ReadRadius(search[i])]]]
    /\ pc' = [pc EXCEPT ![rank] = "computed"]
    /\ UNCHANGED <<args, unitinfo, rows, bcast, sent, self>>
    /\ UNCHANGED soVars

\* what a rank hands to the three gathers
Contribution(rank) ==
    [search_radius |-> loc[rank].local_search_radius,
     read_radius   |-> loc[rank].local_read_radius,
     centre        |-> loc[rank].local_cofp]

\* lines 111-131 on a rank other than 0: the arrays are sent and released,
\* the gathers return None and no attribute is set
GatherWorker(rank) ==
    /\ rank # 0
    /\ pc[rank] = "computed"
    /\ sent' = [sent EXCEPT ![rank] = Contribution(rank)]
    /\ loc' = [loc EXCEPT ![rank] = <<>>]
    /\ self' = [self EXCEPT ![rank] = Attributes(rank, <<>>, <<>>, <<>>)]
    /\ pc' = [pc EXCEPT ![rank] = "done"]
    /\ UNCHANGED <<args, unitinfo, rows, bcast>>
    /\ UNCHANGED soVars

\* lines 111-131 on rank 0: the gathers return once every rank has sent
GatherRoot ==
    /\ pc[0] = "computed"
    /\ \A rank \in Ranks \ {0} : pc[rank] = "done"
    /\ LET arrays == [sent EXCEPT ![0] = Contribution(0)]
       IN  /\ sent' = arrays
           /\ self' = [self EXCEPT ![0] =
                         Attributes(0, GatherArray(arrays, "search_radius", 0),
                                       GatherArray(arrays, "read_radius", 0),
                                       GatherArray(arrays, "centre", 0))]
    /\ loc' = [loc EXCEPT ![0] = <<>>]
    /\ pc' = [pc EXCEPT ![0] = "done"]
    /\ UNCHANGED <<args, unitinfo, rows, bcast>>
    /\ UNCHANGED soVars

NextCat ==
    \/ \E rank \in Ranks : ReadCatalogue(rank)
    \/ \E rank \in Ranks : ConvertAndWrap(rank)
    \/ \E rank \in Ranks : ComputeRadii(rank)
    \/ \E rank \in Ranks : GatherWorker(rank)
    \/ GatherRoot

SpecCat == InitCat /\ [][NextCat]_vars
-----------------------------------------------------------------------------
(* Properties of SOCatalogue.__init__                                      *)

Min(x, y) == IF x <= y THEN x ELSE y
Max(x, y) == IF x >= y THEN x ELSE y

\* the number of catalogue rows held by the ranks below rank
RECURSIVE Offset(_)
Offset(rank) == IF rank = 0 THEN 0 ELSE Offset(rank - 1) + Len(rows[rank - 1])

\* the converted catalogue values of row i of a rank
RowCofm(rank, i) ==
    LET conv == LengthConversion(unitinfo, args.a)
    IN  <<Convert(rows[rank][i].Xc, conv), Convert(rows[rank][i].Yc, conv),
          Convert(rows[rank][i].Zc, conv)>>

RowCofp(rank, i) ==
    LET conv == LengthConversion(unitinfo, args.a)
    IN  <<Convert(rows[rank][i].Xcminpot, conv), Convert(rows[rank][i].Ycminpot, conv),
          Convert(rows[rank][i].Zcminpot, conv)>>

RowSize(rank, i) == Convert(rows[rank][i].R_size, LengthConversion(unitinfo, args.a))

\* min(d, L - d) on one axis of row i
RowMinDiff(rank, i, dim) ==
    LET d == Abs(RowCofp(rank, i)[dim] - RowCofm(rank, i)[dim])
    IN  Min(d, args.boxsize - d)

\* the distance between the two centres under the periodic wrap
RowDistance(rank, i) ==
    ISqrt(RowMinDiff(rank, i, 1) * RowMinDiff(rank, i, 1)
          + RowMinDiff(rank, i, 2) * RowMinDiff(rank, i, 2)
          + RowMinDiff(rank, i, 3) * RowMinDiff(rank, i, 3))

\* C5: for every halo h of the catalogue, read_radius[h] >= search_radius[h]
\* >= 0 and search_radius[h] >= 1.01 size_radius[h], where search_radius is
\* 1.01 size_radius plus the wrapped distance between the centres and
\* read_radius is the larger of search_radius and the 5 Mpc minimum.
C5_RadiiOrdered ==
    pc[0] = "done" =>
        \A rank \in Ranks : \A i \in 1..Len(rows[rank]) :
            LET h      == Offset(rank) + i
                search == self[0].search_radius[h]
                read   == self[0].read_radius[h]
            IN  /\ read >= search
                /\ search >= 0
                /\ 100 * search >= 101 * RowSize(rank, i)
                /\ search = (101 * RowSize(rank, i)) \div 100 + RowDistance(rank, i)
                /\ read = Max(search, min_radius)

C5_Witness ==
    /\ pc[0] = "done"
    /\ \E h \in 1..self[0].nr_halos :
         self[0].search_radius[h] < min_radius /\ self[0].read_radius[h] = min_radius
    /\ \E h \in 1..self[0].nr_halos :
         self[0].search_radius[h] > min_radius
         /\ self[0].read_radius[h] = self[0].search_radius[h]

\* C6: on every axis the wrapped difference is min(d, L - d), d being the
\* absolute coordinate difference of the two centres and L the box size.
C6_WrappedDifference ==
    \A rank \in Ranks :
        pc[rank] = "wrapped" =>
            \A i \in 1..Len(loc[rank].dist) : \A dim \in 1..3 :
                LET d == Abs(loc[rank].local_cofp[i][dim] - loc[rank].local_cofm[i][dim])
                IN  loc[rank].dist[i][dim] = Min(d, args.boxsize - d)

\* a centre pair straddling the box edge: x and L - x give 2x, not L - 2x
C6_Witness ==
    \E rank \in Ranks :
        /\ pc[rank] = "wrapped"
        /\ \E i \in 1..Len(loc[rank].dist) :
             /\ loc[rank].local_cofp[i][1] = args.boxsize - loc[rank].local_cofm[i][1]
             /\ loc[rank].dist[i][1] = 2 * loc[rank].local_cofm[i][1]
             /\ loc[rank].dist[i][1] < args.boxsize - 2 * loc[rank].local_cofm[i][1]

AttributeNames == {"nr_halos", "search_radius", "read_radius", "centre", "index"}

\* C7: once every rank has run __init__, rank 0 alone holds search_radius,
\* read_radius and centre, each as long as the catalogue; entry h is the
\* value computed by the rank that held row h, the ranks' rows following one
\* another in rank order and index running 0..nr_halos-1; every other rank
\* has released its local arrays and holds none of the attributes.
C7_GatheredOnRoot ==
    (\A rank \in Ranks : pc[rank] = "done") =>
        /\ DOMAIN self[0] = AttributeNames
        /\ self[0].nr_halos = Offset(NRanks)
        /\ Len(self[0].search_radius) = Offset(NRanks)
        /\ Len(self[0].read_radius) = Offset(NRanks)
        /\ Len(self[0].centre) = Offset(NRanks)
        /\ Len(self[0].index) = Offset(NRanks)
        /\ \A rank \in Ranks : \A i \in 1..Len(rows[rank]) :
             LET h == Offset(rank) + i
             IN  /\ self[0].search_radius[h] = sent[rank].search_radius[i]
                 /\ self[0].read_radius[h] = sent[rank].read_radius[i]
                 /\ self[0].centre[h] = sent[rank].centre[i]
                 /\ self[0].centre[h] = RowCofp(rank, i)
                 /\ self[0].search_radius[h] =
                        (101 * RowSize(rank, i)) \div 100 + RowDistance(rank, i)
                 /\ self[0].index[h] = h - 1
        /\ \A rank \in Ranks \ {0} :
             DOMAIN self[rank] = {} /\ DOMAIN loc[rank] = {}

C7_Witness ==
    /\ \A rank \in Ranks : pc[rank] = "done"
    /\ Len(rows[0]) >= 1 /\ Len(rows[1]) >= 1
    /\ self[0].nr_halos >= 2
    /\ self[0].search_radius[1] # self[0].search_radius[self[0].nr_halos]
====
